---- MODULE Spec2Model ----
(***************************************************************************)
(* Monero base58 (base58-monero, src/src/base58.rs).                       *)
(*                                                                         *)
(* Bytes and characters are natural numbers 0..255; a character is its     *)
(* ASCII code, as in `data.as_bytes()`.  A u64 and a u128 are sequences of  *)
(* limbs, most significant first: the values of an 11-character block      *)
(* exceed what a machine integer of the checker holds, and the widths are  *)
(* those of the code.                                                      *)
(***************************************************************************)
EXTENDS Naturals, Sequences, FiniteSets

(***************************************************************************)
(* Constants of the crate.                                                 *)
(***************************************************************************)
\* b"123456789ABCDEFGHJKLMNPQRSTUVWXYZabcdefghijkmnopqrstuvwxyz"
BASE58_CHARS ==
  << 49, 50, 51, 52, 53, 54, 55, 56, 57,
     65, 66, 67, 68, 69, 70, 71, 72, 74, 75, 76, 77, 78,
     80, 81, 82, 83, 84, 85, 86, 87, 88, 89, 90,
     97, 98, 99, 100, 101, 102, 103, 104, 105, 106, 107,
     109, 110, 111, 112, 113, 114, 115, 116, 117, 118, 119, 120, 121, 122 >>

\* Mutant of ENCODED_BLOCK_SIZES: one digit too few for a block of 3 bytes.
ENCODED_BLOCK_SIZES_SHORT == << 0, 2, 3, 4, 6, 7, 9, 10, 11 >>

\* ENCODED_BLOCK_SIZES[n] of the code is ENCODED_BLOCK_SIZES[n + 1] here.
ENCODED_BLOCK_SIZES == << 0, 2, 3, 5, 6, 7, 9, 10, 11 >>

FULL_BLOCK_SIZE == 8

FULL_ENCODED_BLOCK_SIZE == ENCODED_BLOCK_SIZES[FULL_BLOCK_SIZE + 1]

CHECKSUM_SIZE == 4

\* Width in bytes of u64 and of u128.
U64_BYTES == 8

U128_BYTES == 16

(***************************************************************************)
(* Results: Result<T, Error>, and a panic of the thread (an arithmetic     *)
(* overflow or a slice index out of range), which is neither.              *)
(***************************************************************************)
Ok(v) == [tag |-> "Ok", val |-> v, err |-> "None"]

Err(e) == [tag |-> "Err", val |-> << >>, err |-> e]

Panic == [tag |-> "Panic", val |-> << >>, err |-> "None"]

(***************************************************************************)
(* enum Error, as a value: its variant and, for Io, the kind of the        *)
(* io::Error it wraps.  In Err(e) above e is the variant alone.            *)
(***************************************************************************)
ErrorVariants == {"InvalidBlockSize", "InvalidSymbol", "InvalidChecksum", "Overflow"}

\* Some kinds of io::Error a source can fail with.
IoKinds == {"NotFound", "UnexpectedEof", "BrokenPipe", "Other"}

Error(variant, io) == [variant |-> variant, io |-> io]

Errors == {Error(v, "None") : v \in ErrorVariants} \cup {Error("Io", k) : k \in IoKinds}

\* Mutant of eq: the comparison a derived PartialEq makes, the wrapped value
\* included.
eq_derived(self, other) == self = other

\* impl PartialEq for Error: match self { V => matches!(other, V), .. }.
eq(self, other) ==
  CASE self.variant = "InvalidBlockSize" -> other.variant = "InvalidBlockSize"
    [] self.variant = "InvalidSymbol"    -> other.variant = "InvalidSymbol"
    [] self.variant = "InvalidChecksum"  -> other.variant = "InvalidChecksum"
    [] self.variant = "Overflow"         -> other.variant = "Overflow"
    [] self.variant = "Io"               -> other.variant = "Io"

(***************************************************************************)
(* Sequences.                                                              *)
(***************************************************************************)
Repeat(x, n) == << >> \o [i \in 1..n |-> x]

Min(a, b) == IF a < b THEN a ELSE b

\* s[from..to), 0-based as a Rust slice &s[from..to].
Slice(s, from, to) == SubSeq(s, from + 1, to)

\* slice.iter().position(|&x| x == c): the 0-based index of the first c, or
\* Len(s) when there is none.
Position(s, c) ==
  IF \A i \in 1..Len(s) : s[i] # c THEN Len(s)
  ELSE (CHOOSE i \in 1..Len(s) : s[i] = c /\ \A j \in 1..(i - 1) : s[j] # c) - 1

(***************************************************************************)
(* Machine integers.  A u64 or a u128 is the sequence of its limbs of 24   *)
(* bits, most significant first; the first limb holds what is left of the  *)
(* width (16 bits of a u64, 8 bits of a u128).                             *)
(***************************************************************************)
LIMB == 2^24

U64_LIMBS == (8 * U64_BYTES + 23) \div 24

U128_LIMBS == (8 * U128_BYTES + 23) \div 24

\* What limb i of x counts up to.
Radix(x, i) ==
  IF i > 1 THEN LIMB
  ELSE IF Len(x) = U64_LIMBS THEN 2^(8 * U64_BYTES - 24 * (U64_LIMBS - 1))
  ELSE 2^(8 * U128_BYTES - 24 * (U128_LIMBS - 1))

\* A small number as a u128, as a u64.
U128(n) == << >> \o [i \in 1..U128_LIMBS |-> IF i = U128_LIMBS THEN n ELSE 0]

U64(n) == << >> \o [i \in 1..U64_LIMBS |-> IF i = U64_LIMBS THEN n ELSE 0]

\* 1 << (8 * k), as a u128.
Pow256(k) ==
  << >> \o [i \in 1..U128_LIMBS |-> IF i = U128_LIMBS - (k \div 3) THEN 256^(k % 3) ELSE 0]

\* The carry into limb i of x + y: some lower limb overflows and every limb
\* between passes the carry on.
CarryIn(x, y, i) ==
  IF \E j \in (i + 1)..Len(x) :
       /\ x[j] + y[j] >= LIMB
       /\ \A k \in (i + 1)..(j - 1) : x[k] + y[k] = LIMB - 1
  THEN 1 ELSE 0

\* x + y, wrapped to the width of x (Len(x) = Len(y)).
WrappingAdd(x, y) ==
  << >> \o [i \in 1..Len(x) |-> (x[i] + y[i] + CarryIn(x, y, i)) % Radix(x, i)]

\* x * m, wrapped to the width of x (m < 128): the low parts of the products
\* of the limbs, plus their high parts one limb up.
WrappingMul(x, m) ==
  WrappingAdd([i \in 1..Len(x) |-> (x[i] * m) % LIMB],
              [i \in 1..Len(x) |-> IF i = Len(x) THEN 0 ELSE (x[i + 1] * m) \div LIMB])

\* x < y for two integers of the same width.
Less(x, y) == \E i \in 1..Len(x) : x[i] < y[i] /\ \A j \in 1..(i - 1) : x[j] = y[j]

\* The remainder of the first i limbs of x by d (d < 128), by long division.
RECURSIVE RemUpTo(_, _, _)
RemUpTo(x, d, i) == IF i = 0 THEN 0 ELSE (RemUpTo(x, d, i - 1) * LIMB + x[i]) % d

\* [quot |-> x / d, rem |-> x % d].
DivMod(x, d) ==
  [quot |-> << >> \o [i \in 1..Len(x) |-> (RemUpTo(x, d, i - 1) * LIMB + x[i]) \div d],
   rem  |-> RemUpTo(x, d, Len(x))]

\* x as u64: the low 64 bits of a u128.
AsU64(x) ==
  << >> \o [i \in 1..U64_LIMBS |-> x[Len(x) - U64_LIMBS + i] % Radix(U64(0), i)]

\* Mutant of ToBeBytes: x.to_le_bytes().
ToLeBytes(x) ==
  << >> \o [i \in 1..U64_BYTES |->
              (x[Len(x) - ((i - 1) \div 3)] \div 256^((i - 1) % 3)) % 256]

\* x.to_be_bytes() of a u64.
ToBeBytes(x) ==
  << >> \o [i \in 1..U64_BYTES |->
              (x[Len(x) - ((U64_BYTES - i) \div 3)] \div 256^((U64_BYTES - i) % 3)) % 256]

(***************************************************************************)
(* Block converter.                                                        *)
(***************************************************************************)
\* for b in data { res = res << 8 | *b as u64 }: every byte ends up 8 bits
\* higher for each byte after it, and what passes bit 63 is shifted out, so
\* res is the number the last U64_BYTES bytes of data spell, big end first.
ByteFromEnd(data, k) == IF k < Len(data) THEN data[Len(data) - k] ELSE 0

\* Mutant of u8be_to_u64: the first byte is the least significant.
u8le_to_u64(data) ==
  LET rev == << >> \o [i \in 1..Len(data) |-> data[Len(data) + 1 - i]]
  IN  << >> \o [i \in 1..U64_LIMBS |->
                  LET k == 3 * (U64_LIMBS - i)
                  IN  IF i = 1
                      THEN ByteFromEnd(rev, k + 1) * 256 + ByteFromEnd(rev, k)
                      ELSE ByteFromEnd(rev, k + 2) * 65536 + ByteFromEnd(rev, k + 1) * 256
                           + ByteFromEnd(rev, k)]

u8be_to_u64(data) ==
  << >> \o [i \in 1..U64_LIMBS |->
              LET k == 3 * (U64_LIMBS - i)
              IN  IF i = 1
                  THEN ByteFromEnd(data, k + 1) * 256 + ByteFromEnd(data, k)
                  ELSE ByteFromEnd(data, k + 2) * 65536 + ByteFromEnd(data, k + 1) * 256
                       + ByteFromEnd(data, k)]

\* The loop of encode_block on its variables st = (res, num, i):
\* while i > 0 { remainder = num % 58; num /= 58; i -= 1; res[i] = .. }
RECURSIVE EncodeLoop(_)
EncodeLoop(st) ==
  IF st.i = 0 THEN st.res
  ELSE LET qr == DivMod(st.num, Len(BASE58_CHARS))
       IN  EncodeLoop([res |-> [st.res EXCEPT ![st.i] = BASE58_CHARS[qr.rem + 1]],
                       num |-> qr.quot,
                       i   |-> st.i - 1])

\* Mutant of encode_block: an empty block is not refused.
encode_block_allows_empty(data) ==
  IF Len(data) > FULL_BLOCK_SIZE
  THEN Err("InvalidBlockSize")
  ELSE Ok(EncodeLoop([res |-> Repeat(BASE58_CHARS[1], FULL_ENCODED_BLOCK_SIZE),
                      num |-> u8be_to_u64(data),
                      i   |-> ENCODED_BLOCK_SIZES[Len(data) + 1]]))

encode_block(data) ==
  IF Len(data) = 0 \/ Len(data) > FULL_BLOCK_SIZE
  THEN Err("InvalidBlockSize")
  ELSE Ok(EncodeLoop([res |-> Repeat(BASE58_CHARS[1], FULL_ENCODED_BLOCK_SIZE),
                      num |-> u8be_to_u64(data),
                      i   |-> ENCODED_BLOCK_SIZES[Len(data) + 1]]))

\* The closure of try_for_each on the variables st = (res, order), for a
\* character at place digit of the alphabet (Len(BASE58_CHARS): at none):
\* res += order * digit; order *= 58.
DecodeStep(st, digit) ==
  IF digit = Len(BASE58_CHARS) THEN Err("InvalidSymbol")
  ELSE Ok([res   |-> WrappingAdd(st.res, WrappingMul(st.order, digit)),
           order |-> WrappingMul(st.order, 58)])

\* Mutant of DecodeFold: a character outside the alphabet counts as digit 0.
RECURSIVE DecodeFoldLenient(_, _, _)
DecodeFoldLenient(data, i, acc) ==
  IF i = 0 \/ acc.tag = "Err" THEN acc
  ELSE LET p == Position(BASE58_CHARS, data[i])
       IN  DecodeFoldLenient(data, i - 1,
                             DecodeStep(acc.val, IF p = Len(BASE58_CHARS) THEN 0 ELSE p))

\* data.iter().rev().try_for_each(..): from data[i] down to the first
\* character, until the closure returns an error.
RECURSIVE DecodeFold(_, _, _)
DecodeFold(data, i, acc) ==
  IF i = 0 \/ acc.tag = "Err" THEN acc
  ELSE DecodeFold(data, i - 1, DecodeStep(acc.val, Position(BASE58_CHARS, data[i])))

\* let mut res: u128 = 0; let mut order = Wrapping(1);
Start128 == [res |-> U128(0), order |-> U128(1)]

\* Mutant of decode_block: no range check, the value is cut to res_size bytes.
decode_block_unchecked(data) ==
  IF Len(data) > FULL_ENCODED_BLOCK_SIZE THEN Err("InvalidBlockSize")
  ELSE LET res_size == Position(ENCODED_BLOCK_SIZES, Len(data))
       IN  IF res_size = Len(ENCODED_BLOCK_SIZES) THEN Err("InvalidBlockSize")
           ELSE LET acc == DecodeFold(data, Len(data), Ok(Start128))
                IN  IF acc.tag = "Err" THEN acc
                    ELSE Ok([data |-> ToBeBytes(AsU64(acc.val.res)), size |-> res_size])

\* Mutant of decode_block: the value is accumulated in a u64, which wraps.
decode_block_u64(data) ==
  IF Len(data) > FULL_ENCODED_BLOCK_SIZE THEN Err("InvalidBlockSize")
  ELSE LET res_size == Position(ENCODED_BLOCK_SIZES, Len(data))
       IN  IF res_size = Len(ENCODED_BLOCK_SIZES) THEN Err("InvalidBlockSize")
           ELSE LET acc == DecodeFold(data, Len(data), Ok([res |-> U64(0), order |-> U64(1)]))
                IN  IF acc.tag = "Err" THEN acc
                    ELSE IF Less(Repeat(0, U128_LIMBS - U64_LIMBS) \o acc.val.res, Pow256(res_size))
                    THEN Ok([data |-> ToBeBytes(acc.val.res), size |-> res_size])
                    ELSE Err("Overflow")

\* Mutant of decode_block: a length the table does not hold is taken as the
\* next one it holds.
decode_block_anysize(data) ==
  IF Len(data) > FULL_ENCODED_BLOCK_SIZE THEN Err("InvalidBlockSize")
  ELSE LET res_size == CHOOSE n \in 0..FULL_BLOCK_SIZE :
                         /\ ENCODED_BLOCK_SIZES[n + 1] >= Len(data)
                         /\ \A m \in 0..(n - 1) : ENCODED_BLOCK_SIZES[m + 1] < Len(data)
           acc      == DecodeFold(data, Len(data), Ok(Start128))
       IN  IF acc.tag = "Err" THEN acc
           ELSE IF Less(acc.val.res, Pow256(res_size))
           THEN Ok([data |-> ToBeBytes(AsU64(acc.val.res)), size |-> res_size])
           ELSE Err("Overflow")

\* On success val is DecodedBlock: [data |-> 8 bytes, size |-> res_size].
decode_block(data) ==
  IF Len(data) > FULL_ENCODED_BLOCK_SIZE THEN Err("InvalidBlockSize")
  ELSE LET res_size == Position(ENCODED_BLOCK_SIZES, Len(data))
       IN  IF res_size = Len(ENCODED_BLOCK_SIZES) THEN Err("InvalidBlockSize")
           ELSE LET acc == DecodeFold(data, Len(data), Ok(Start128))
                IN  IF acc.tag = "Err" THEN acc
                    ELSE IF Less(acc.val.res, Pow256(res_size))
                    THEN Ok([data |-> ToBeBytes(AsU64(acc.val.res)), size |-> res_size])
                    ELSE Err("Overflow")

(***************************************************************************)
(* Chunked buffer handling.                                                *)
(***************************************************************************)
\* Mutant of Chunks: the pieces are one element too long.
ChunksOversize(s, n) ==
  << >> \o [k \in 1..((Len(s) + n) \div (n + 1)) |->
              Slice(s, (k - 1) * (n + 1), Min(k * (n + 1), Len(s)))]

\* slice.chunks(n): consecutive pieces of n elements, the last one shorter
\* when Len(s) is no multiple of n; none for the empty slice.
Chunks(s, n) ==
  << >> \o [k \in 1..((Len(s) + n - 1) \div n) |-> Slice(s, (k - 1) * n, Min(k * n, Len(s)))]

\* iter.map(f).collect::<Result<Vec<_>>>(): the results in order, or the
\* first error; rs is the sequence of the results of f.
RECURSIVE CollectFrom(_, _, _)
CollectFrom(rs, i, acc) ==
  IF i > Len(rs) THEN Ok(acc)
  ELSE IF rs[i].tag = "Err" THEN rs[i]
  ELSE CollectFrom(rs, i + 1, Append(acc, rs[i].val))

\* Mutant of Collect: the last error is the one returned.
CollectLastError(rs) ==
  IF \E i \in 1..Len(rs) : rs[i].tag = "Err"
  THEN rs[CHOOSE i \in 1..Len(rs) :
            rs[i].tag = "Err" /\ \A j \in (i + 1)..Len(rs) : rs[j].tag # "Err"]
  ELSE CollectFrom(<< >> \o rs, 1, << >>)

Collect(rs) == CollectFrom(<< >> \o rs, 1, << >>)

\* Mutant of encode: the last block is not cut to its table length.
RECURSIVE ConcatAll(_, _)
ConcatAll(blocks, i) ==
  IF i > Len(blocks) THEN << >> ELSE blocks[i] \o ConcatAll(blocks, i + 1)

encode_untruncated(data) ==
  LET chunks == Chunks(data, FULL_BLOCK_SIZE)
      blocks == Collect([k \in 1..Len(chunks) |-> encode_block(chunks[k])])
  IN  IF blocks.tag = "Err" THEN blocks ELSE Ok(ConcatAll(blocks.val, 1))

\* Mutant of EncodeExtend: the block before the last one is the one cut.
RECURSIVE EncodeExtendEarly(_, _, _, _, _)
EncodeExtendEarly(blocks, i, full_block_count, last_block_size, res) ==
  IF i >= Len(blocks) THEN res
  ELSE EncodeExtendEarly(blocks, i + 1, full_block_count, last_block_size,
         res \o (IF i + 1 = full_block_count
                 THEN Slice(blocks[i + 1], 0, last_block_size)
                 ELSE blocks[i + 1]))

\* data?.into_iter().for_each(|v| ..) on i and res, from block i (from 0).
RECURSIVE EncodeExtend(_, _, _, _, _)
EncodeExtend(blocks, i, full_block_count, last_block_size, res) ==
  IF i >= Len(blocks) THEN res
  ELSE EncodeExtend(blocks, i + 1, full_block_count, last_block_size,
         res \o (IF i = full_block_count
                 THEN Slice(blocks[i + 1], 0, last_block_size)
                 ELSE blocks[i + 1]))

encode(data) ==
  LET last_block_size  == ENCODED_BLOCK_SIZES[(Len(data) % FULL_BLOCK_SIZE) + 1]
      full_block_count == Len(data) \div FULL_BLOCK_SIZE
      chunks           == Chunks(data, FULL_BLOCK_SIZE)
      blocks           == Collect([k \in 1..Len(chunks) |-> encode_block(chunks[k])])
  IN  IF blocks.tag = "Err" THEN blocks
      ELSE Ok(EncodeExtend(blocks.val, 0, full_block_count, last_block_size, << >>))

RECURSIVE DecodeExtend(_, _, _)
DecodeExtend(blocks, i, res) ==
  IF i > Len(blocks) THEN res
  ELSE DecodeExtend(blocks, i + 1,
         res \o Slice(blocks[i].data, FULL_BLOCK_SIZE - blocks[i].size, FULL_BLOCK_SIZE))

\* Mutant of decode: a block that fails is left out and the rest is returned.
RECURSIVE DecodeLossyFrom(_, _, _)
DecodeLossyFrom(chunks, i, res) ==
  IF i > Len(chunks) THEN res
  ELSE LET b == decode_block(chunks[i])
       IN  DecodeLossyFrom(chunks, i + 1,
             IF b.tag = "Err" THEN res
             ELSE res \o Slice(b.val.data, FULL_BLOCK_SIZE - b.val.size, FULL_BLOCK_SIZE))

decode_lossy(data) == Ok(DecodeLossyFrom(Chunks(data, FULL_ENCODED_BLOCK_SIZE), 1, << >>))

decode(data) ==
  LET chunks == Chunks(data, FULL_ENCODED_BLOCK_SIZE)
      blocks == Collect([k \in 1..Len(chunks) |-> decode_block(chunks[k])])
  IN  IF blocks.tag = "Err" THEN blocks
      ELSE Ok(DecodeExtend(blocks.val, 1, << >>))

(***************************************************************************)
(* Checksum wrapper.  Keccak::v256 is the tiny_keccak crate's; the design  *)
(* takes the digest as a parameter, and only its first CHECKSUM_SIZE bytes *)
(* are ever read.  It is modelled by a family of functions of the bytes    *)
(* fed to the hasher, one per seed: byte i of the digest of p depends on   *)
(* the seed, on the sum of p and on the length of p.                       *)
(***************************************************************************)
\* The sum of s[lo..hi], by halves.
RECURSIVE SumRange(_, _, _)
SumRange(s, lo, hi) ==
  IF lo > hi THEN 0
  ELSE IF lo = hi THEN s[lo]
  ELSE SumRange(s, lo, (lo + hi) \div 2) + SumRange(s, ((lo + hi) \div 2) + 1, hi)

SumFrom(s, i) == SumRange(s, i, Len(s))

Keccak4(sd, bytes) ==
  [i \in 1..CHECKSUM_SIZE |-> (sd + i * SumFrom(bytes, 1) + (i - 1) * Len(bytes)) % 256]

encode_check(sd, data) == encode(data \o Keccak4(sd, data))

\* Mutant of decode_check: the digest is taken over the checksum bytes too.
decode_check_whole(sd, data) ==
  LET bytes == decode(data)
  IN  IF bytes.tag = "Err" THEN bytes
      ELSE IF Len(bytes.val) < CHECKSUM_SIZE THEN Panic
      ELSE LET len == Len(bytes.val)
           IN  IF Keccak4(sd, bytes.val) = Slice(bytes.val, len - CHECKSUM_SIZE, len)
               THEN Ok(Slice(bytes.val, 0, len - CHECKSUM_SIZE))
               ELSE Err("InvalidChecksum")

\* Mutant of decode_check: the checksum is cut off and never compared.
decode_check_unverified(sd, data) ==
  LET bytes == decode(data)
  IN  IF bytes.tag = "Err" THEN bytes
      ELSE IF Len(bytes.val) < CHECKSUM_SIZE THEN Panic
      ELSE Ok(Slice(bytes.val, 0, Len(bytes.val) - CHECKSUM_SIZE))

\* Mutant of decode_check: a text that does not decode is reported as a bad
\* checksum.
decode_check_masked(sd, data) ==
  LET bytes == decode(data)
  IN  IF bytes.tag = "Err" THEN Err("InvalidChecksum")
      ELSE IF Len(bytes.val) < CHECKSUM_SIZE THEN Panic
      ELSE LET len      == Len(bytes.val)
               payload  == Slice(bytes.val, 0, len - CHECKSUM_SIZE)
               checksum == Slice(bytes.val, len - CHECKSUM_SIZE, len)
           IN  IF Keccak4(sd, payload) = checksum
               THEN Ok(payload)
               ELSE Err("InvalidChecksum")

\* len - CHECKSUM_SIZE on usize: with fewer than CHECKSUM_SIZE decoded bytes
\* the subtraction overflows.  A build with overflow checks panics there; a
\* build without wraps it to a huge index and the slice &bytes[..len - 4]
\* panics: every build panics.
decode_check(sd, data) ==
  LET bytes == decode(data)
  IN  IF bytes.tag = "Err" THEN bytes
      ELSE IF Len(bytes.val) < CHECKSUM_SIZE THEN Panic
      ELSE LET len      == Len(bytes.val)
               payload  == Slice(bytes.val, 0, len - CHECKSUM_SIZE)
               checksum == Slice(bytes.val, len - CHECKSUM_SIZE, len)
           IN  IF Keccak4(sd, payload) = checksum
               THEN Ok(payload)
               ELSE Err("InvalidChecksum")

(***************************************************************************)
(* Inputs.  A run of x followed by a run of y covers, over two values,     *)
(* leading zeros, maximal blocks and every place of the change.            *)
(***************************************************************************)
MaxDataLen == 9

MaxTextLen == 13

ByteVals == {0, 255}

\* '1' (digit 0) and 'z' (digit 57).
TextChars == {BASE58_CHARS[1], BASE58_CHARS[Len(BASE58_CHARS)]}

\* '0', 'I', 'O', 'l': the look-alikes the alphabet leaves out.
Lookalikes == {48, 73, 79, 108}

TwoRuns(vals, max) ==
  { Repeat(x, m) \o Repeat(y, n - m) :
      <<x, y, n, m>> \in { t \in vals \X vals \X (0..max) \X (0..max) : t[4] <= t[3] } }

DataInputs == TwoRuns(ByteVals, MaxDataLen)

\* "the 69-byte string, like Monero addresses, will always convert to 95
\* Base58 characters (8 * 11 + 7)".
AddressLen == 69

AddressEncodedLen == 95

AddressInputs == { Repeat(x, AddressLen) : x \in ByteVals }

TextInputs == TwoRuns(TextChars, MaxTextLen)

\* Two digest functions: seed 255 gives the empty payload the checksum
\* FF FF FF FF, seed 0 gives it 00 00 00 00.
Seeds == {0, 255}

(***************************************************************************)
(* State: one call sequence of a caller of the whole-buffer API.           *)
(***************************************************************************)
VARIABLES
  data,   \* the bytes given to encode / encode_check
  text,   \* the text to decode
  seed,   \* the digest function in use
  enc,    \* where text comes from: "none" (no text yet), "input", "encode", "encode_check"
  edit,   \* what the caller did to text: "none", "last", "symbol"
  op,     \* the last call: "none", "encode", "encode_check", "decode", "decode_check"
  res,    \* the value the last call returned
  \* A run of a streaming operation:
  sop,      \* the operation: "none", "encode_stream", "encode_stream_check",
            \* "decode_stream", "decode_stream_check"
  src,      \* the bytes the source has still to deliver
  spc,      \* where the stream stands: "read", "yield", "ended", "done", "panic"
  items,    \* the items the caller has pulled, in order
  ds_buf,   \* decode_stream: buf
  ds_clen,  \* decode_stream: clen
  pend,     \* the bytes or characters of the converted block still to yield
  after,    \* what follows the yields: "continue", "break", or "tail" (the
            \* second block of encode_stream_check at the end of input)
  dsc_buf,  \* decode_stream_check: buf
  dsc_clen, \* decode_stream_check: clen
  hashed,   \* the bytes fed to the hasher, in order
  es_buf,   \* encode_stream, encode_stream_check: buf
  es_clen,  \* encode_stream, encode_stream_check: clen
  \* A comparison of two Error values:
  lhs,      \* self
  rhs,      \* other
  eq_res,   \* what self == other returned, "none" before the comparison
  \* Calls of the whole-buffer API that run at the same time:
  calls,    \* per thread, the call it runs: its argument, its locals, its result
  frames    \* per frame, the block encode_block / decode_block has returned

callVars == << data, text, seed, enc, edit, op, res >>

streamVars ==
  << sop, src, spc, items, ds_buf, ds_clen, pend, after, dsc_buf, dsc_clen, hashed,
     es_buf, es_clen >>

errVars == << lhs, rhs, eq_res >>

concVars == << calls, frames >>

vars == << callVars, streamVars, errVars, concVars >>

\* The locals of the streams as try_stream! creates them.
StreamLocals ==
  /\ spc = "read"
  /\ items = << >>
  /\ ds_buf = Repeat(0, FULL_ENCODED_BLOCK_SIZE)
  /\ ds_clen = 0
  /\ pend = << >>
  /\ after = "continue"
  /\ dsc_buf = Repeat(0, CHECKSUM_SIZE + 1)
  /\ dsc_clen = 0
  /\ hashed = << >>
  /\ es_buf = Repeat(0, FULL_BLOCK_SIZE)
  /\ es_clen = 0

Threads == {"a", "b"}

\* No call runs on any thread.
NoCalls ==
  /\ calls = [t \in Threads |->
               [op |-> "none", arg |-> << >>, bytes |-> << >>, blocks |-> << >>,
                pc |-> "done", ret |-> Ok(<< >>)]]
  /\ frames = [t \in Threads |-> Err("None")]

\* No two Error values are being compared.
NoComparison ==
  /\ lhs = Error("InvalidBlockSize", "None")
  /\ rhs = Error("InvalidBlockSize", "None")
  /\ eq_res = << >>

Init ==
  /\ seed \in Seeds
  /\ \/ /\ data \in DataInputs \cup AddressInputs
        /\ text = << >>
        /\ enc = "none"
     \/ /\ data = << >>
        /\ text \in TextInputs
        /\ enc = "input"
  /\ edit = "none"
  /\ op = "none"
  /\ res = Ok(<< >>)
  /\ sop = "none"
  /\ src = << >>
  /\ StreamLocals
  /\ NoComparison
  /\ NoCalls

CallEncode ==
  /\ enc = "none"
  /\ res' = encode(data)
  /\ text' = res'.val
  /\ enc' = "encode"
  /\ op' = "encode"
  /\ UNCHANGED << data, seed, edit, streamVars, errVars, concVars >>

CallEncodeCheck ==
  /\ enc = "none"
  /\ res' = encode_check(seed, data)
  /\ text' = res'.val
  /\ enc' = "encode_check"
  /\ op' = "encode_check"
  /\ UNCHANGED << data, seed, edit, streamVars, errVars, concVars >>

Decoded == op \in {"decode", "decode_check"}

\* The symbols the caller puts in place of the final character cur: the
\* first and the last of the alphabet, and the neighbours of cur.
Replacements(cur) ==
  LET d == Position(BASE58_CHARS, cur)
  IN  { BASE58_CHARS[k] : k \in ({1, d, d + 2, Len(BASE58_CHARS)} \cap 1..Len(BASE58_CHARS)) }
        \ {cur}

\* The caller replaces the final character of an encoded text by another
\* symbol of the alphabet.
TamperLast ==
  /\ enc \in {"encode", "encode_check"}
  /\ edit = "none"
  /\ ~Decoded
  /\ text # << >>
  /\ \E c \in Replacements(text[Len(text)]) :
       text' = [text EXCEPT ![Len(text)] = c]
  /\ edit' = "last"
  /\ UNCHANGED << data, seed, enc, op, res, streamVars, errVars, concVars >>

\* The caller puts a look-alike character at some place of a text.
SetSymbol ==
  /\ enc = "input"
  /\ edit = "none"
  /\ ~Decoded
  /\ \E i \in 1..Len(text), c \in Lookalikes :
       text' = [text EXCEPT ![i] = c]
  /\ edit' = "symbol"
  /\ UNCHANGED << data, seed, enc, op, res, streamVars, errVars, concVars >>

CallDecode ==
  /\ enc # "none"
  /\ ~Decoded
  /\ res' = decode(text)
  /\ op' = "decode"
  /\ UNCHANGED << data, text, seed, enc, edit, streamVars, errVars, concVars >>

CallDecodeCheck ==
  /\ enc # "none"
  /\ ~Decoded
  /\ res' = decode_check(seed, text)
  /\ op' = "decode_check"
  /\ UNCHANGED << data, text, seed, enc, edit, streamVars, errVars, concVars >>

Next ==
  \/ CallEncode
  \/ CallEncodeCheck
  \/ TamperLast
  \/ SetSymbol
  \/ CallDecode
  \/ CallDecodeCheck

Spec == Init /\ [][Next]_vars

(***************************************************************************)
(* Streaming decode.  A step is the code a stream runs between two points  *)
(* where it is suspended: a read of the source or a yield.                  *)
(***************************************************************************)
\* let len = CHECKSUM_SIZE + 1
DSC_LEN == CHECKSUM_SIZE + 1

\* 2^64 % 5: 2^4 = 16 is 1 modulo 5, and 2^64 = (2^4)^16.
USIZE_WRAP_MOD_LEN == 1

\* The texts a stream is run on: runs of '1', 'z' and '0', and
\* encode_check of a payload.
StreamChars == TextChars \cup {48}

StreamTexts == TwoRuns(StreamChars, MaxTextLen)

\* Mutant of BlockBytes: the whole buffer of the block.
BlockBytesAll(block) == block.data

\* &block.data[FULL_BLOCK_SIZE - block.size..]
BlockBytes(block) == Slice(block.data, FULL_BLOCK_SIZE - block.size, FULL_BLOCK_SIZE)

\* The state of decode_stream_check's loop as a record.
DscState == [buf |-> dsc_buf, clen |-> dsc_clen, hashed |-> hashed, items |-> items]

\* Mutant of DscYieldIndex: the byte just received is yielded.
DscYieldIndexNoWindow(clen) == clen % DSC_LEN

\* (clen - CHECKSUM_SIZE) % len, taken when clen >= CHECKSUM_SIZE.
DscYieldIndex(clen) == (clen - CHECKSUM_SIZE) % DSC_LEN

\* Mutant of DscOnItem: the yielded byte is not fed to the hasher.
DscOnItemNoHash(st, value) ==
  IF value.tag = "Err" THEN [st EXCEPT !.items = Append(@, value)]
  ELSE LET b1 == [st.buf EXCEPT ![(st.clen % DSC_LEN) + 1] = value.val]
       IN  IF st.clen >= CHECKSUM_SIZE
           THEN LET y == b1[DscYieldIndex(st.clen) + 1]
                IN  [buf |-> b1, clen |-> st.clen + 1,
                     hashed |-> st.hashed, items |-> Append(st.items, Ok(y))]
           ELSE [st EXCEPT !.buf = b1, !.clen = st.clen + 1]

\* The body of `while let Some(value) = data.next().await` for one item of
\* the inner stream.
DscOnItem(st, value) ==
  IF value.tag = "Err" THEN [st EXCEPT !.items = Append(@, value)]
  ELSE LET b1 == [st.buf EXCEPT ![(st.clen % DSC_LEN) + 1] = value.val]
       IN  IF st.clen >= CHECKSUM_SIZE
           THEN LET y == b1[DscYieldIndex(st.clen) + 1]
                IN  [buf |-> b1, clen |-> st.clen + 1,
                     hashed |-> Append(st.hashed, y), items |-> Append(st.items, Ok(y))]
           ELSE [st EXCEPT !.buf = b1, !.clen = st.clen + 1]

\* What the consumer of decode_stream does with an item: the caller keeps it,
\* decode_stream_check runs its loop body.
OnItem(st, value) ==
  IF sop = "decode_stream" THEN [st EXCEPT !.items = Append(@, value)]
  ELSE DscOnItem(st, value)

Consume(value) ==
  LET st == OnItem(DscState, value)
  IN  /\ items' = st.items
      /\ dsc_buf' = st.buf
      /\ dsc_clen' = st.clen
      /\ hashed' = st.hashed

\* Where the run stands once decode_stream has ended without an error: the
\* caller of decode_stream is done, decode_stream_check leaves its loop.
InnerEnded == IF sop = "decode_stream" THEN "done" ELSE "ended"

\* decode_stream, after buf holds a block: decode_block(block)?, then the
\* yields (the first of them is the step DsYield).
DsBlock(block, nbuf, nclen, then) ==
  LET r == decode_block(block)
  IN  /\ ds_buf' = nbuf
      /\ ds_clen' = nclen
      /\ after' = then
      /\ IF r.tag = "Err"
         THEN /\ Consume(r)
              /\ pend' = << >>
              /\ spc' = "done"
         ELSE /\ pend' = BlockBytes(r.val)
              /\ spc' = IF pend' # << >> THEN "yield"
                        ELSE IF then = "break" THEN InnerEnded ELSE "read"
              /\ UNCHANGED << items, dsc_buf, dsc_clen, hashed >>

\* data.read(&mut buf[clen..]).await?: the source gives len bytes, at least
\* one unless it is exhausted and no more than the buffer has room for.
DsRead ==
  /\ sop \in {"decode_stream", "decode_stream_check"}
  /\ spc = "read"
  /\ \E len \in (IF src = << >> THEN {0}
                  ELSE 1..Min(Len(src), FULL_ENCODED_BLOCK_SIZE - ds_clen)) :
       LET nbuf  == [i \in 1..FULL_ENCODED_BLOCK_SIZE |->
                       IF i > ds_clen /\ i <= ds_clen + len THEN src[i - ds_clen]
                       ELSE ds_buf[i]]
           nclen == ds_clen + len
       IN  /\ src' = Slice(src, len, Len(src))
           /\ IF len = 0
              THEN DsBlock(Slice(nbuf, 0, nclen), nbuf, nclen, "break")
              ELSE IF nclen = FULL_ENCODED_BLOCK_SIZE
              THEN DsBlock(nbuf, nbuf, nclen, "continue")
              ELSE /\ ds_buf' = nbuf
                   /\ ds_clen' = nclen
                   /\ UNCHANGED << spc, items, pend, after, dsc_buf, dsc_clen, hashed >>
  /\ UNCHANGED << callVars, errVars, concVars, sop, es_buf, es_clen >>

\* data.read(..).await? when the source fails: the error is the last item.
DsReadFails ==
  /\ sop \in {"decode_stream", "decode_stream_check"}
  /\ spc = "read"
  /\ Consume(Err("Io"))
  /\ spc' = "done"
  /\ UNCHANGED << callVars, errVars, concVars, sop, src, ds_buf, ds_clen, pend, after, es_buf, es_clen >>

\* yield *c for the next byte of the block; after the last one the loop
\* goes on (clen = 0) or is left (break).
DsYield ==
  /\ sop \in {"decode_stream", "decode_stream_check"}
  /\ spc = "yield"
  /\ Consume(Ok(Head(pend)))
  /\ pend' = Tail(pend)
  /\ IF pend' # << >>
     THEN UNCHANGED << spc, ds_clen >>
     ELSE IF after = "break"
     THEN /\ spc' = InnerEnded
          /\ UNCHANGED ds_clen
     ELSE /\ spc' = "read"
          /\ ds_clen' = 0
  /\ UNCHANGED << callVars, errVars, concVars, sop, src, ds_buf, after, es_buf, es_clen >>

\* Mutant of DscCheckIndex: the window starts one place later.
DscCheckIndexShifted(clen, i) == (clen - CHECKSUM_SIZE + i + 1) % DSC_LEN

\* (clen - CHECKSUM_SIZE + i) % len, where nothing overflows.
DscCheckIndex(clen, i) == (clen - CHECKSUM_SIZE + i) % DSC_LEN

\* The same on a usize that wraps modulo 2^64: clen - CHECKSUM_SIZE wraps
\* when clen < CHECKSUM_SIZE, and adding i wraps it back once
\* clen + i >= CHECKSUM_SIZE.
DscCheckIndexWrapped(clen, i) ==
  IF clen + i >= CHECKSUM_SIZE THEN (clen + i - CHECKSUM_SIZE) % DSC_LEN
  ELSE (USIZE_WRAP_MOD_LEN + clen + i + (DSC_LEN - CHECKSUM_SIZE)) % DSC_LEN

\* The end of decode_stream_check, once the inner stream has ended:
\* hasher.finalize, the last CHECKSUM_SIZE bytes received, the comparison.
\* With fewer than CHECKSUM_SIZE bytes received, clen - CHECKSUM_SIZE
\* overflows usize: a build with overflow checks panics, a build without
\* wraps the index modulo 2^64.
DscFinish ==
  /\ sop = "decode_stream_check"
  /\ spc = "ended"
  /\ LET checksum == Keccak4(seed, hashed)
         exact   == [i \in 1..CHECKSUM_SIZE |-> dsc_buf[DscCheckIndex(dsc_clen, i - 1) + 1]]
         wrapped == [i \in 1..CHECKSUM_SIZE |->
                       dsc_buf[DscCheckIndexWrapped(dsc_clen, i - 1) + 1]]
         finish(check) ==
           /\ items' = IF check # checksum THEN Append(items, Err("InvalidChecksum"))
                       ELSE items
           /\ spc' = "done"
     IN  IF dsc_clen >= CHECKSUM_SIZE
         THEN finish(exact)
         ELSE \/ /\ spc' = "panic"
                 /\ UNCHANGED items
              \/ finish(wrapped)
  /\ UNCHANGED << callVars, errVars, concVars, sop, src, ds_buf, ds_clen, pend, after, dsc_buf, dsc_clen,
                  hashed, es_buf, es_clen >>

(***************************************************************************)
(* Streaming encode.                                                       *)
(***************************************************************************)
\* The bytes an encoding stream is run on.
StreamData == DataInputs

\* Mutant of EsFill: the bytes read are put at the start of buf.
EsFillAtStart(len) ==
  << >> \o [i \in 1..FULL_BLOCK_SIZE |-> IF i <= len THEN src[i] ELSE es_buf[i]]

\* buf after data.read(&mut buf[clen..]) has put the first len bytes of the
\* source at clen.
EsFill(len) ==
  << >> \o [i \in 1..FULL_BLOCK_SIZE |->
              IF i > es_clen /\ i <= es_clen + len THEN src[i - es_clen] ELSE es_buf[i]]

\* What a read of the source can return: 0 when it is exhausted, else at
\* least one byte and no more than buf[clen..] has room for.
EsReadLens == IF src = << >> THEN {0} ELSE 1..Min(Len(src), FULL_BLOCK_SIZE - es_clen)

\* for c in &encode_block(block)?[..width] { yield *c; }: encode_block runs
\* here, the yields are the steps EsYield; a width is never 0.
EsBlock(its, block, width, then) ==
  LET r == encode_block(block)
  IN  /\ after' = then
      /\ IF r.tag = "Err"
         THEN /\ items' = Append(its, r)
              /\ pend' = << >>
              /\ spc' = "done"
         ELSE /\ items' = its
              /\ pend' = Slice(r.val, 0, width)
              /\ spc' = "yield"

\* Mutant of EsEof: the final block is encoded whatever clen is.
EsEofUnguarded(nbuf, nclen) ==
  EsBlock(items, Slice(nbuf, 0, nclen), ENCODED_BLOCK_SIZES[nclen + 1], "break")

\* encode_stream at len == 0: if clen > 0 { the final block } break.
EsEof(nbuf, nclen) ==
  IF nclen > 0
  THEN EsBlock(items, Slice(nbuf, 0, nclen), ENCODED_BLOCK_SIZES[nclen + 1], "break")
  ELSE /\ after' = "break"
       /\ spc' = "done"
       /\ UNCHANGED << items, pend >>

EsRead ==
  /\ sop = "encode_stream"
  /\ spc = "read"
  /\ \E len \in EsReadLens :
       LET nbuf  == EsFill(len)
           nclen == es_clen + len
       IN  /\ src' = Slice(src, len, Len(src))
           /\ es_buf' = nbuf
           /\ es_clen' = nclen
           /\ IF len = 0 THEN EsEof(nbuf, nclen)
              ELSE IF nclen = FULL_BLOCK_SIZE
              THEN EsBlock(items, nbuf, FULL_ENCODED_BLOCK_SIZE, "continue")
              ELSE UNCHANGED << spc, items, pend, after >>
  /\ UNCHANGED << callVars, errVars, concVars, sop, ds_buf, ds_clen, dsc_buf, dsc_clen, hashed >>

\* Mutant of EscEof: the final bytes are not fed to the hasher.
EscEofUnhashed(nbuf, nclen) ==
  LET checksum == Keccak4(seed, hashed)
  IN  /\ UNCHANGED hashed
      /\ IF nclen + CHECKSUM_SIZE > FULL_BLOCK_SIZE
         THEN LET sum_size == FULL_BLOCK_SIZE - nclen
                  full     == Slice(nbuf, 0, nclen) \o Slice(checksum, 0, sum_size)
              IN  /\ es_buf' = full
                  /\ es_clen' = nclen
                  /\ EsBlock(items, full, FULL_ENCODED_BLOCK_SIZE, "tail")
         ELSE LET clen == nclen + CHECKSUM_SIZE
                  buf  == Slice(nbuf, 0, nclen) \o checksum \o Slice(nbuf, clen, FULL_BLOCK_SIZE)
              IN  /\ es_buf' = buf
                  /\ es_clen' = clen
                  /\ EsBlock(items, Slice(buf, 0, clen), ENCODED_BLOCK_SIZES[clen + 1], "break")

\* encode_stream_check at len == 0: the bytes left in buf are fed to the
\* hasher and the digest is taken; the checksum goes after them, in this
\* block when it has room for it, else across this block and one more.
EscEof(nbuf, nclen) ==
  LET fed      == hashed \o Slice(nbuf, 0, nclen)
      checksum == Keccak4(seed, fed)
  IN  /\ hashed' = fed
      /\ IF nclen + CHECKSUM_SIZE > FULL_BLOCK_SIZE
         THEN LET sum_size == FULL_BLOCK_SIZE - nclen
                  full     == Slice(nbuf, 0, nclen) \o Slice(checksum, 0, sum_size)
              IN  /\ es_buf' = full
                  /\ es_clen' = nclen
                  /\ EsBlock(items, full, FULL_ENCODED_BLOCK_SIZE, "tail")
         ELSE LET clen == nclen + CHECKSUM_SIZE
                  buf  == Slice(nbuf, 0, nclen) \o checksum \o Slice(nbuf, clen, FULL_BLOCK_SIZE)
              IN  /\ es_buf' = buf
                  /\ es_clen' = clen
                  /\ EsBlock(items, Slice(buf, 0, clen), ENCODED_BLOCK_SIZES[clen + 1], "break")

EscRead ==
  /\ sop = "encode_stream_check"
  /\ spc = "read"
  /\ \E len \in EsReadLens :
       LET nbuf  == EsFill(len)
           nclen == es_clen + len
       IN  /\ src' = Slice(src, len, Len(src))
           /\ IF len = 0 THEN EscEof(nbuf, nclen)
              ELSE IF nclen = FULL_BLOCK_SIZE
              THEN /\ hashed' = hashed \o nbuf
                   /\ es_buf' = nbuf
                   /\ es_clen' = nclen
                   /\ EsBlock(items, nbuf, FULL_ENCODED_BLOCK_SIZE, "continue")
              ELSE /\ es_buf' = nbuf
                   /\ es_clen' = nclen
                   /\ UNCHANGED << spc, items, pend, after, hashed >>
  /\ UNCHANGED << callVars, errVars, concVars, sop, ds_buf, ds_clen, dsc_buf, dsc_clen >>

\* Mutant of EsReadFails: the error is yielded and the loop reads again.
EsReadFailsRetry ==
  /\ sop \in {"encode_stream", "encode_stream_check"}
  /\ spc = "read"
  /\ Len(items) < MaxDataLen
  /\ items' = Append(items, Err("Io"))
  /\ UNCHANGED << callVars, errVars, concVars, sop, src, spc, ds_buf, ds_clen, pend, after, dsc_buf,
                  dsc_clen, hashed, es_buf, es_clen >>

\* data.read(..).await? when the source fails: the error is the last item.
EsReadFails ==
  /\ sop \in {"encode_stream", "encode_stream_check"}
  /\ spc = "read"
  /\ items' = Append(items, Err("Io"))
  /\ spc' = "done"
  /\ UNCHANGED << callVars, errVars, concVars, sop, src, ds_buf, ds_clen, pend, after, dsc_buf, dsc_clen,
                  hashed, es_buf, es_clen >>

\* encode_stream_check, after the block that holds the first sum_size bytes
\* of the checksum: the block of the bytes of the checksum that are left.
EscTail(its) ==
  LET checksum == Keccak4(seed, hashed)
      sum_size == FULL_BLOCK_SIZE - es_clen
  IN  EsBlock(its, Slice(checksum, sum_size, CHECKSUM_SIZE),
              ENCODED_BLOCK_SIZES[CHECKSUM_SIZE - sum_size + 1], "break")

\* Mutant of EsYield: clen is not reset after a full block.
EsYieldNoReset ==
  /\ sop \in {"encode_stream", "encode_stream_check"}
  /\ spc = "yield"
  /\ IF Tail(pend) # << >>
     THEN /\ items' = Append(items, Ok(Head(pend)))
          /\ pend' = Tail(pend)
          /\ UNCHANGED << spc, after, es_clen >>
     ELSE IF after = "tail"
     THEN /\ EscTail(Append(items, Ok(Head(pend))))
          /\ UNCHANGED es_clen
     ELSE /\ items' = Append(items, Ok(Head(pend)))
          /\ pend' = << >>
          /\ spc' = IF after = "break" THEN "done" ELSE "read"
          /\ UNCHANGED << after, es_clen >>
  /\ UNCHANGED << callVars, errVars, concVars, sop, src, ds_buf, ds_clen, dsc_buf, dsc_clen, hashed, es_buf >>

\* yield *c for the next character of the block; after the last one the
\* loop goes on (clen = 0), is left (break), or the second block of the end
\* of encode_stream_check is encoded.
EsYield ==
  /\ sop \in {"encode_stream", "encode_stream_check"}
  /\ spc = "yield"
  /\ IF Tail(pend) # << >>
     THEN /\ items' = Append(items, Ok(Head(pend)))
          /\ pend' = Tail(pend)
          /\ UNCHANGED << spc, after, es_clen >>
     ELSE IF after = "tail"
     THEN /\ EscTail(Append(items, Ok(Head(pend))))
          /\ UNCHANGED es_clen
     ELSE /\ items' = Append(items, Ok(Head(pend)))
          /\ pend' = << >>
          /\ spc' = IF after = "break" THEN "done" ELSE "read"
          /\ es_clen' = IF after = "break" THEN es_clen ELSE 0
          /\ UNCHANGED after
  /\ UNCHANGED << callVars, errVars, concVars, sop, src, ds_buf, ds_clen, dsc_buf, dsc_clen, hashed, es_buf >>

StreamInit ==
  /\ seed \in Seeds
  /\ \/ /\ sop \in {"decode_stream", "decode_stream_check"}
        /\ data = << >>
        /\ text \in StreamTexts
        /\ enc = "input"
        /\ src = text
     \/ /\ sop = "decode_stream_check"
        /\ data \in DataInputs
        /\ text = encode_check(seed, data).val
        /\ enc = "encode_check"
        /\ src = text
     \/ /\ sop \in {"encode_stream", "encode_stream_check"}
        /\ data \in StreamData
        /\ text = << >>
        /\ enc = "none"
        /\ src = data
  /\ edit = "none"
  /\ op = "none"
  /\ res = Ok(<< >>)
  /\ StreamLocals
  /\ NoComparison
  /\ NoCalls

StreamNext ==
  \/ DsRead
  \/ DsReadFails
  \/ DsYield
  \/ DscFinish
  \/ EsRead
  \/ EscRead
  \/ EsReadFails
  \/ EsYield

StreamSpec == StreamInit /\ [][StreamNext]_vars

(***************************************************************************)
(* A comparison of two Error values.                                       *)
(***************************************************************************)
ErrorInit ==
  /\ data = << >>
  /\ text = << >>
  /\ seed = 0
  /\ enc = "none"
  /\ edit = "none"
  /\ op = "none"
  /\ res = Ok(<< >>)
  /\ sop = "none"
  /\ src = << >>
  /\ StreamLocals
  /\ lhs \in Errors
  /\ rhs \in Errors
  /\ eq_res = << >>
  /\ NoCalls

\* lhs == rhs
CallEq ==
  /\ eq_res = << >>
  /\ eq_res' = << eq(lhs, rhs) >>
  /\ UNCHANGED << callVars, streamVars, concVars, lhs, rhs >>

ErrorNext == CallEq

ErrorSpec == ErrorInit /\ [][ErrorNext]_vars

(***************************************************************************)
(* One call of the block converter, as the tests of the crate make it.     *)
(***************************************************************************)
BlockInit ==
  /\ seed = 0
  /\ \/ /\ data \in DataInputs
        /\ text = << >>
        /\ enc = "none"
     \/ /\ data = << >>
        /\ text \in StreamTexts
        /\ enc = "input"
  /\ edit = "none"
  /\ op = "none"
  /\ res = Ok(<< >>)
  /\ sop = "none"
  /\ src = << >>
  /\ StreamLocals
  /\ NoComparison
  /\ NoCalls

CallEncodeBlock ==
  /\ enc = "none"
  /\ op = "none"
  /\ res' = encode_block(data)
  /\ op' = "encode_block"
  /\ UNCHANGED << data, text, seed, enc, edit, streamVars, errVars, concVars >>

CallDecodeBlock ==
  /\ enc = "input"
  /\ op = "none"
  /\ res' = decode_block(text)
  /\ op' = "decode_block"
  /\ UNCHANGED << data, text, seed, enc, edit, streamVars, errVars, concVars >>

BlockNext ==
  \/ CallEncodeBlock
  \/ CallDecodeBlock

BlockSpec == BlockInit /\ [][BlockNext]_vars

(***************************************************************************)
(* State machine: two threads, each in one call of encode, encode_check,   *)
(* decode or decode_check, interleaved at every block.  A call reads its   *)
(* argument and the two tables and writes its locals only.                 *)
(***************************************************************************)
ConcData == { Repeat(255, n) : n \in {0, CHECKSUM_SIZE + 1, MaxDataLen} }

\* Texts with a good checksum for one of the digests, a text of one
\* character, a text of 1 byte, a block out of range, a look-alike.
ConcTexts ==
  { encode_check(sd, d).val : <<sd, d>> \in Seeds \X ConcData }
    \cup { Repeat(BASE58_CHARS[1], 1), Repeat(BASE58_CHARS[1], 2),
           Repeat(BASE58_CHARS[Len(BASE58_CHARS)], FULL_ENCODED_BLOCK_SIZE),
           Repeat(BASE58_CHARS[1], FULL_ENCODED_BLOCK_SIZE) \o << 48, 48 >> }

ConcCalls ==
  ({"encode", "encode_check"} \X ConcData) \cup ({"decode", "decode_check"} \X ConcTexts)

Encodes(c) == c.op \in {"encode", "encode_check"}

\* data.chunks(FULL_BLOCK_SIZE) / data.as_bytes().chunks(FULL_ENCODED_BLOCK_SIZE)
CallChunks(c) ==
  Chunks(c.bytes, IF Encodes(c) THEN FULL_BLOCK_SIZE ELSE FULL_ENCODED_BLOCK_SIZE)

\* Mutant of Frame: one static buffer for the block of every call.
FrameShared(t) == "a"

\* `res` of encode_block and the DecodedBlock of decode_block are locals:
\* each call has its own.
Frame(t) == t

ConcInit ==
  /\ seed \in Seeds
  /\ data = << >>
  /\ text = << >>
  /\ enc = "none"
  /\ edit = "none"
  /\ op = "none"
  /\ res = Ok(<< >>)
  /\ sop = "none"
  /\ src = << >>
  /\ StreamLocals
  /\ NoComparison
  /\ calls \in [Threads ->
                  { [op |-> c[1], arg |-> c[2], bytes |-> << >>, blocks |-> << >>,
                     pc |-> "begin", ret |-> Ok(<< >>)] : c \in ConcCalls }]
  /\ frames = [t \in Threads |-> Err("None")]

\* The call is entered: encode_check copies data and appends the checksum,
\* the others take their argument as it is.
ConcBegin(t) ==
  LET c == calls[t]
      b == IF c.op = "encode_check" THEN c.arg \o Keccak4(seed, c.arg) ELSE c.arg
      n == [c EXCEPT !.bytes = b]
  IN  /\ c.pc = "begin"
      /\ calls' = [calls EXCEPT ![t] =
                     [n EXCEPT !.pc = IF CallChunks(n) = << >> THEN "finish" ELSE "block"]]
      /\ UNCHANGED << callVars, streamVars, errVars, frames >>

\* map(encode_block) / map(decode_block) on the next chunk.
ConcBlock(t) ==
  LET c     == calls[t]
      chunk == CallChunks(c)[Len(c.blocks) + 1]
  IN  /\ c.pc = "block"
      /\ frames' = [frames EXCEPT ![Frame(t)] =
                      IF Encodes(c) THEN encode_block(chunk) ELSE decode_block(chunk)]
      /\ calls' = [calls EXCEPT ![t].pc = "push"]
      /\ UNCHANGED << callVars, streamVars, errVars >>

\* collect(): the block is pushed, or its error ends the call (data?).
ConcPush(t) ==
  LET c == calls[t]
      r == frames[Frame(t)]
  IN  /\ c.pc = "push"
      /\ calls' = [calls EXCEPT ![t] =
                     IF r.tag = "Err" THEN [c EXCEPT !.pc = "done", !.ret = r]
                     ELSE [c EXCEPT !.blocks = Append(@, r.val),
                                    !.pc = IF Len(c.blocks) + 1 = Len(CallChunks(c))
                                           THEN "finish" ELSE "block"]]
      /\ UNCHANGED << callVars, streamVars, errVars, frames >>

\* The blocks are joined; decode_check then splits off and compares the
\* checksum.
ConcFinish(t) ==
  LET c      == calls[t]
      joined == IF Encodes(c)
                THEN EncodeExtend(c.blocks, 0, Len(c.bytes) \div FULL_BLOCK_SIZE,
                                  ENCODED_BLOCK_SIZES[(Len(c.bytes) % FULL_BLOCK_SIZE) + 1],
                                  << >>)
                ELSE DecodeExtend(c.blocks, 1, << >>)
      len      == Len(joined)
      payload  == Slice(joined, 0, len - CHECKSUM_SIZE)
      checksum == Slice(joined, len - CHECKSUM_SIZE, len)
  IN  /\ c.pc = "finish"
      /\ calls' = [calls EXCEPT ![t].pc = "done",
                                ![t].ret =
                                  IF c.op # "decode_check" THEN Ok(joined)
                                  ELSE IF len < CHECKSUM_SIZE THEN Panic
                                  ELSE IF Keccak4(seed, payload) = checksum THEN Ok(payload)
                                  ELSE Err("InvalidChecksum")]
      /\ UNCHANGED << callVars, streamVars, errVars, frames >>

ConcNext ==
  \E t \in Threads :
    \/ ConcBegin(t)
    \/ ConcBlock(t)
    \/ ConcPush(t)
    \/ ConcFinish(t)

ConcSpec == ConcInit /\ [][ConcNext]_vars

(***************************************************************************)
(* Properties of the whole-buffer API.                                     *)
(***************************************************************************)
TextChunks == Chunks(text, FULL_ENCODED_BLOCK_SIZE)

\* The bytes a decoded block contributes to the output of decode.
Significant(block) == Slice(block.data, FULL_BLOCK_SIZE - block.size, FULL_BLOCK_SIZE)

IsSymbol(c) == \E k \in 1..Len(BASE58_CHARS) : BASE58_CHARS[k] = c

HasLookalike(t) == \E i \in 1..Len(t) : t[i] \in Lookalikes

\* The chunk (from 1) that holds the first look-alike character of t.
FirstLookalikeChunk(t) ==
  LET i == CHOOSE j \in 1..Len(t) :
             /\ t[j] \in Lookalikes
             /\ \A h \in 1..(j - 1) : t[h] \notin Lookalikes
  IN  ((i - 1) \div FULL_ENCODED_BLOCK_SIZE) + 1

ValidBlockLength(n) == \E w \in 1..Len(ENCODED_BLOCK_SIZES) : ENCODED_BLOCK_SIZES[w] = n

\* The value of a block of alphabet symbols as a number in base 58, most
\* significant digit first, by Horner's rule on three limbs of 24 bits
\* (58^11 < 2^72: nothing is lost), then written as 9 bytes, big end first.
HornerStep(v, d) ==
  LET l == v[3] * 58 + d
      m == v[2] * 58 + (l \div LIMB)
      h == v[1] * 58 + (m \div LIMB)
  IN  << h, m % LIMB, l % LIMB >>

RECURSIVE BlockLimbs(_, _)
BlockLimbs(block, st) ==
  IF st.i > Len(block) THEN st.v
  ELSE BlockLimbs(block, [i |-> st.i + 1,
                          v |-> HornerStep(st.v, Position(BASE58_CHARS, block[st.i]))])

LimbBytes(x) == << x \div 65536, (x \div 256) % 256, x % 256 >>

BlockValue(block) ==
  LET v == BlockLimbs(block, [i |-> 1, v |-> << 0, 0, 0 >>])
  IN  LimbBytes(v[1]) \o LimbBytes(v[2]) \o LimbBytes(v[3])

\* 2^(8k) as 9 bytes (k <= 8).
TwoToThe8(k) == [i \in 1..(U64_BYTES + 1) |-> IF i = U64_BYTES + 1 - k THEN 1 ELSE 0]

\* C1: for every byte sequence b, of any length, encode(b) succeeds and
\* decode(encode(b)) returns Ok(b).
C1_RoundTrip ==
  (enc = "encode" /\ edit = "none") =>
    /\ op = "encode" => res.tag = "Ok"
    /\ op = "decode" => res = Ok(data)

C1_Witness ==
  /\ enc = "encode" /\ edit = "none" /\ op = "decode"
  /\ Len(data) = FULL_BLOCK_SIZE + 1
  /\ res = Ok(data)

\* C2: for every byte sequence b, the empty one included, and every digest
\* function, decode_check(encode_check(b)) returns Ok(b).
C2_RoundTripCheck ==
  (enc = "encode_check" /\ edit = "none") =>
    /\ op = "encode_check" => res.tag = "Ok"
    /\ op = "decode_check" => res = Ok(data)

C2_Witness ==
  /\ enc = "encode_check" /\ edit = "none" /\ op = "decode_check"
  /\ data = << >>
  /\ res = Ok(data)

\* C3: decoding accepts only canonical encodings: whenever decode(s) returns
\* Ok(b), encode(b) = s; and every chunk decode_block accepts is the block
\* encode_block produces for the bytes it decodes to.
C3_Canonical ==
  op = "decode" =>
    /\ res.tag = "Ok" => encode(res.val) = Ok(text)
    /\ \A k \in 1..Len(TextChunks) :
         LET b == decode_block(TextChunks[k])
         IN  b.tag = "Ok" =>
               Slice(encode_block(Significant(b.val)).val, 0, Len(TextChunks[k]))
                 = TextChunks[k]

C3_Witness ==
  /\ op = "decode" /\ enc = "input" /\ res.tag = "Ok"
  /\ Len(text) = FULL_ENCODED_BLOCK_SIZE + 2
  /\ text[Len(text)] = BASE58_CHARS[Len(BASE58_CHARS)]

\* C4 (as claimed): decode_check on a text whose chunked decode succeeds with
\* fewer than 4 bytes returns an error value.
C4_ShortIsError ==
  (op = "decode_check" /\ decode(text).tag = "Ok" /\ Len(decode(text).val) < CHECKSUM_SIZE)
    => res.tag = "Err"

C6_AlwaysInvalidBlockSize ==
  (op = "decode" /\ (Len(text) % FULL_ENCODED_BLOCK_SIZE) \in {1, 4, 8})
    => res = Err("InvalidBlockSize")

\* C6 (amended): decode of any string whose length mod 11 is 1, 4 or 8 fails;
\* it fails with InvalidBlockSize when every 11-character chunk before the
\* final chunk decodes without error.
C6_BadLengthFails ==
  (op = "decode" /\ (Len(text) % FULL_ENCODED_BLOCK_SIZE) \in {1, 4, 8}) =>
    /\ res.tag = "Err"
    /\ (\A j \in 1..(Len(TextChunks) - 1) : decode_block(TextChunks[j]).tag = "Ok")
         => res = Err("InvalidBlockSize")

C6_Witness ==
  /\ op = "decode" /\ edit = "symbol"
  /\ Len(text) = FULL_ENCODED_BLOCK_SIZE + 1
  /\ text[Len(text)] \in Lookalikes
  /\ res = Err("InvalidBlockSize")

\* C7: for every chunk of a valid length made only of alphabet symbols, with
\* w the width of that length and v the exact value of the chunk in base 58,
\* decode_block succeeds, with the bytes of v, iff v < 2^(8w), and fails with
\* Overflow iff v >= 2^(8w); a value of 2^64 or more is never wrapped.
C7_OverflowExact ==
  op = "decode" =>
    \A k \in 1..Len(TextChunks) :
      LET c == TextChunks[k]
          w == Position(ENCODED_BLOCK_SIZES, Len(c))
          v == BlockValue(c)
          r == decode_block(c)
      IN  (ValidBlockLength(Len(c)) /\ \A i \in 1..Len(c) : IsSymbol(c[i])) =>
            /\ Less(v, TwoToThe8(w)) =>
                 /\ r.tag = "Ok"
                 /\ r.val.size = w
                 /\ r.val.data = Slice(v, 1, U64_BYTES + 1)
                 /\ (Len(text) <= FULL_ENCODED_BLOCK_SIZE => res = Ok(Significant(r.val)))
            /\ ~Less(v, TwoToThe8(w)) =>
                 /\ r = Err("Overflow")
                 /\ (Len(text) <= FULL_ENCODED_BLOCK_SIZE => res = Err("Overflow"))

\* The encoding of 2^64 - 1 with its final symbol raised by one: "jpXCZedGfVR".
C7_Witness ==
  /\ op = "decode" /\ enc = "encode" /\ edit = "last"
  /\ data = Repeat(255, FULL_BLOCK_SIZE)
  /\ text[Len(text)] = 82
  /\ res = Err("Overflow")

\* C8 (as claimed): for s = encode_check(p), every string got from s by
\* replacing its final character by another alphabet symbol makes decode_check
\* fail with InvalidChecksum.
C8_TamperIsInvalidChecksum ==
  (enc = "encode_check" /\ edit = "last" /\ op = "decode_check")
    => res = Err("InvalidChecksum")

\* C8 (amended): for s = encode_check(p), a string got from s by replacing
\* its final character by another alphabet symbol never decodes to Ok(p):
\* decode_check fails with Overflow when the altered final block is out of
\* range for its width, and with InvalidChecksum when the altered text decodes
\* and its payload part is still p.
C8_TamperFails ==
  (enc = "encode_check" /\ edit = "last" /\ op = "decode_check") =>
    LET d == decode(text)
    IN  /\ res # Ok(data)
        /\ d.tag = "Err" => (d = Err("Overflow") /\ res = d)
        /\ (d.tag = "Ok" /\ Slice(d.val, 0, Len(d.val) - CHECKSUM_SIZE) = data)
             => res = Err("InvalidChecksum")

C8_Witness ==
  /\ enc = "encode_check" /\ edit = "last" /\ op = "decode_check"
  /\ Len(data) = FULL_BLOCK_SIZE + 1
  /\ res = Err("InvalidChecksum")

\* C9: decode and decode_check are all-or-nothing: when a chunk of the input
\* fails, or the checksum does not match, the result is the error alone and
\* carries no byte of the chunks that decoded.
C9_AllOrNothing ==
  /\ (op = "decode" /\ \E k \in 1..Len(TextChunks) : decode_block(TextChunks[k]).tag = "Err")
       => (res.tag = "Err" /\ res.val = << >>)
  /\ op = "decode_check" =>
       LET d == decode(text)
       IN  /\ d.tag = "Err" => res = d
           /\ ( /\ d.tag = "Ok"
                /\ Len(d.val) >= CHECKSUM_SIZE
                /\ Keccak4(seed, Slice(d.val, 0, Len(d.val) - CHECKSUM_SIZE))
                     # Slice(d.val, Len(d.val) - CHECKSUM_SIZE, Len(d.val)) )
                => res = Err("InvalidChecksum")
           /\ res.tag = "Err" => res.val = << >>

C9_Witness ==
  /\ op = "decode"
  /\ Len(TextChunks) = 2
  /\ decode_block(TextChunks[1]).tag = "Ok"
  /\ decode_block(TextChunks[2]).tag = "Err"
  /\ res.tag = "Err" /\ res.val = << >>

\* C11: encode and encode_check never return an error: for every input, the
\* chunks they hand to encode_block hold 1 to 8 bytes each, so encode_block
\* does not fail with InvalidBlockSize on any of them.
C11_EncodeNeverFails ==
  op \in {"encode", "encode_check"} =>
    LET bytes  == IF op = "encode" THEN data ELSE data \o Keccak4(seed, data)
        chunks == Chunks(bytes, FULL_BLOCK_SIZE)
    IN  /\ res.tag = "Ok"
        /\ \A k \in 1..Len(chunks) :
             /\ Len(chunks[k]) \in 1..FULL_BLOCK_SIZE
             /\ encode_block(chunks[k]).tag = "Ok"

C11_Witness ==
  /\ op = "encode_check"
  /\ Len(data) = FULL_BLOCK_SIZE + 1
  /\ Len(Chunks(data \o Keccak4(seed, data), FULL_BLOCK_SIZE)) = 2
  /\ res.tag = "Ok"

\* C12: for every input of n bytes, encode emits 11 characters for each
\* chunk that is not the last and ENCODED_BLOCK_SIZES[len] characters for the
\* last chunk, so the output has 11 * (n / 8) + ENCODED_BLOCK_SIZES[n % 8]
\* characters: 95 for 69 bytes, and full blocks only for a multiple of 8.
C12_EncodedLength ==
  op = "encode" =>
    LET n      == Len(data)
        chunks == Chunks(data, FULL_BLOCK_SIZE)
    IN  /\ res.tag = "Ok"
        /\ Len(res.val) = FULL_ENCODED_BLOCK_SIZE * (n \div FULL_BLOCK_SIZE)
                            + ENCODED_BLOCK_SIZES[(n % FULL_BLOCK_SIZE) + 1]
        /\ \A k \in 1..Len(chunks) :
             LET from  == FULL_ENCODED_BLOCK_SIZE * (k - 1)
                 width == IF k < Len(chunks) THEN FULL_ENCODED_BLOCK_SIZE
                          ELSE ENCODED_BLOCK_SIZES[Len(chunks[k]) + 1]
             IN  /\ from + width <= Len(res.val)
                 /\ Slice(res.val, from, from + width)
                      = Slice(encode_block(chunks[k]).val, 0, width)
        /\ n = AddressLen => Len(res.val) = AddressEncodedLen
        /\ n % FULL_BLOCK_SIZE = 0 => Len(res.val) = FULL_ENCODED_BLOCK_SIZE * Len(chunks)

C12_Witness ==
  /\ op = "encode"
  /\ Len(data) = AddressLen
  /\ Len(res.val) = AddressEncodedLen

(***************************************************************************)
(* Properties of the streaming decoders.                                   *)
(***************************************************************************)
\* The bytes of the Ok items of a sequence of items, in order.
RECURSIVE OkBytesFrom(_, _)
OkBytesFrom(its, i) ==
  IF i > Len(its) THEN << >>
  ELSE (IF its[i].tag = "Ok" THEN << its[i].val >> ELSE << >>) \o OkBytesFrom(its, i + 1)

OkBytes(its) == OkBytesFrom(its, 1)

\* The decoded bytes of the chunks of a text that precede its first failing
\* chunk (of all its chunks when none fails).
RECURSIVE GoodBytesFrom(_, _)
GoodBytesFrom(chunks, i) ==
  IF i > Len(chunks) THEN << >>
  ELSE LET b == decode_block(chunks[i])
       IN  IF b.tag = "Err" THEN << >>
           ELSE Significant(b.val) \o GoodBytesFrom(chunks, i + 1)

GoodBytes(t) == GoodBytesFrom(Chunks(t, FULL_ENCODED_BLOCK_SIZE), 1)

\* The stream has ended with an error of decoding as its last item.
EndedWithDecodeError ==
  /\ spc = "done"
  /\ items # << >>
  /\ items[Len(items)].tag = "Err"
  /\ items[Len(items)].err \in {"InvalidBlockSize", "InvalidSymbol", "Overflow", "InvalidChecksum"}

\* C10 (as claimed): whenever decode_stream or decode_stream_check ends with
\* an error, no Ok(byte) item was yielded before that error.
C10_NoByteBeforeError == EndedWithDecodeError => OkBytes(items) = << >>

\* C10 (amended): whenever decode_stream ends with an error, the Ok(byte)
\* items yielded before it are exactly the decoded bytes of the blocks that
\* precede the failing block, and no byte of the failing block; whenever
\* decode_stream_check ends with an error, they are the decoded bytes of the
\* blocks that did not fail less the last 4 of them.  The error is the last
\* item and the only error.
C10_OnlyEarlierBlocks ==
  EndedWithDecodeError =>
    LET good == GoodBytes(text)
    IN  /\ \A i \in 1..(Len(items) - 1) : items[i].tag = "Ok"
        /\ sop = "decode_stream" => OkBytes(items) = good
        /\ sop = "decode_stream_check" =>
             OkBytes(items) =
               Slice(good, 0, IF Len(good) > CHECKSUM_SIZE THEN Len(good) - CHECKSUM_SIZE ELSE 0)

C10_Witness ==
  /\ EndedWithDecodeError
  /\ sop = "decode_stream_check"
  /\ items[Len(items)] = Err("Overflow")
  /\ Len(items) = FULL_BLOCK_SIZE - CHECKSUM_SIZE + 1
  /\ hashed = OkBytes(items)

(***************************************************************************)
(* Properties of the four streams.                                         *)
(***************************************************************************)
\* The source has answered a read with 0 bytes: only then is `after` set to
\* leave the loop.
Exhausted == after \in {"break", "tail"}

HasError(its) == \E i \in 1..Len(its) : its[i].tag = "Err"

\* The source failed: the stream has ended with the error of a read.
IoFailed == items # << >> /\ items[Len(items)] = Err("Io")

IsPrefix(p, t) == Len(p) <= Len(t) /\ SubSeq(t, 1, Len(p)) = p

\* The items a stream yields for the sequence bs when nothing fails.
AllOk(bs) == << >> \o [i \in 1..Len(bs) |-> Ok(bs[i])]

\* C13: encode of the empty byte sequence returns Ok("") and decode of the
\* empty string returns Ok(empty sequence); encode_stream and decode_stream
\* on a source that is exhausted at its first read yield no item and no
\* error, and end.
C13_Empty ==
  /\ (sop = "encode_stream" /\ data = << >>) =>
       /\ encode(data) = Ok(<< >>)
       /\ items \in {<< >>, << Err("Io") >>}
       /\ Exhausted => (items = << >> /\ spc = "done")
  /\ (sop = "decode_stream" /\ text = << >>) =>
       /\ decode(text) = Ok(<< >>)
       /\ items \in {<< >>, << Err("Io") >>}
       /\ Exhausted => (items = << >> /\ spc = "done")

C13_Witness ==
  /\ sop = "encode_stream"
  /\ data = << >>
  /\ Exhausted
  /\ spc = "done"
  /\ items = << >>

\* C14: for every byte sequence b and every way the source delivers b over
\* successive reads, the characters encode_stream yields are, in order, those
\* of encode(b): a prefix of them at any time, all of them once the stream
\* has ended; no error item is yielded unless a read of the source fails.
C14_EncodeStreamIsEncode ==
  sop = "encode_stream" =>
    /\ \A i \in 1..Len(items) : items[i].tag = "Err" => items[i] = Err("Io")
    /\ IsPrefix(OkBytes(items), encode(data).val)
    /\ (spc = "done" /\ ~IoFailed) => items = AllOk(encode(data).val)

C14_Witness ==
  /\ sop = "encode_stream"
  /\ spc = "done"
  /\ Len(data) = FULL_BLOCK_SIZE + 1
  /\ data[1] # data[Len(data)]
  /\ items = AllOk(encode(data).val)

\* C15: for every text s and every split of s into reads, once decode_stream
\* has ended: if decode(s) returns Ok(b) the items are exactly the bytes of b
\* in order, with no error; if decode(s) returns Err(e) the last item is
\* Err(e).
C15_DecodeStreamIsDecode ==
  (sop = "decode_stream" /\ spc = "done" /\ ~IoFailed) =>
    LET d == decode(text)
    IN  /\ d.tag = "Ok" => items = AllOk(d.val)
        /\ d.tag = "Err" => (items # << >> /\ items[Len(items)] = d)

C15_Witness ==
  /\ sop = "decode_stream"
  /\ spc = "done"
  /\ Len(text) = FULL_ENCODED_BLOCK_SIZE + 2
  /\ decode(text) = Err("InvalidSymbol")
  /\ Len(items) = FULL_BLOCK_SIZE + 1
  /\ items[Len(items)] = Err("InvalidSymbol")

\* C16: for every payload p, of every length mod 8 (5, 6 and 7, where the
\* checksum goes across two blocks, included), and every split of p into
\* reads, the characters encode_stream_check yields are those of
\* encode_check(p) = encode(p ++ the first 4 bytes of the digest of p).
C16_EncodeStreamCheckIsEncodeCheck ==
  sop = "encode_stream_check" =>
    LET whole == encode(data \o Keccak4(seed, data))
    IN  /\ encode_check(seed, data) = whole
        /\ \A i \in 1..Len(items) : items[i].tag = "Err" => items[i] = Err("Io")
        /\ IsPrefix(OkBytes(items), whole.val)
        /\ (spc = "done" /\ ~IoFailed) => items = AllOk(whole.val)

C16_Witness ==
  /\ sop = "encode_stream_check"
  /\ spc = "done"
  /\ Len(data) = FULL_BLOCK_SIZE - 1
  /\ data[1] # data[Len(data)]
  /\ Len(items) = FULL_ENCODED_BLOCK_SIZE + ENCODED_BLOCK_SIZES[CHECKSUM_SIZE]
  /\ items = AllOk(encode_check(seed, data).val)

\* C17: for every text whose chunked decode succeeds with at least 4 bytes,
\* decode_stream_check does not abort, and once it has ended: it has yielded
\* no error exactly when decode_check returns Ok(p), and then the bytes it
\* yielded are exactly p in order; its last item is Err(InvalidChecksum)
\* exactly when decode_check returns Err(InvalidChecksum).
C17_DecodeStreamCheckIsDecodeCheck ==
  ( /\ sop = "decode_stream_check"
    /\ decode(text).tag = "Ok"
    /\ Len(decode(text).val) >= CHECKSUM_SIZE ) =>
    /\ spc # "panic"
    /\ (spc = "done" /\ ~IoFailed) =>
         LET r == decode_check(seed, text)
         IN  /\ ~HasError(items) <=> r.tag = "Ok"
             /\ ~HasError(items) => items = AllOk(r.val)
             /\ (items # << >> /\ items[Len(items)] = Err("InvalidChecksum"))
                  <=> r = Err("InvalidChecksum")

C17_Witness ==
  /\ sop = "decode_stream_check"
  /\ spc = "done"
  /\ enc = "encode_check"
  /\ Len(data) = FULL_BLOCK_SIZE + 1
  /\ data[1] # data[Len(data)]
  /\ items = AllOk(data)

\* C18: in each of the four streams an error is terminal: the items hold at
\* most one Err, it is the last item, and once it is yielded the stream has
\* ended: no item follows and the source is not read again.
C18_ErrorIsTerminal ==
  /\ [](\A i \in 1..Len(items) : items[i].tag = "Err" => (i = Len(items) /\ spc = "done"))
  /\ [][HasError(items) => (items' = items /\ src' = src /\ spc' = spc)]_vars

C18_Witness ==
  /\ sop = "encode_stream_check"
  /\ spc = "done"
  /\ Len(items) = FULL_ENCODED_BLOCK_SIZE + 1
  /\ items[Len(items)] = Err("Io")
  /\ src # << >>

\* A bound on the steps a stream has still to take: a read takes bytes from
\* the source or finds it exhausted, a yield takes an item from the block.
Rank ==
  2 * (FULL_ENCODED_BLOCK_SIZE + 1) * (Len(src) + (IF Exhausted THEN 0 ELSE 1))
    + (IF after = "tail" THEN FULL_ENCODED_BLOCK_SIZE + 1 ELSE 0)
    + Len(pend)
    + (IF spc \in {"done", "panic"} THEN 0 ELSE 1)

\* The stream stands at a read, at a yield of an item it holds, at the end
\* of its inner stream, or has ended: it has not aborted.
Running == spc \in {"read", "yield", "ended", "done"} /\ (spc = "yield" => pend # << >>)

\* C19 (as claimed): each stream terminates at source exhaustion: every
\* step brings it nearer to its end, so it yields finitely many items, and
\* then it ends; it ends only after a read of 0 bytes or after an error, and
\* it performs no read after the read of 0 bytes.
C19_TerminatesAtExhaustion ==
  /\ [][Rank' < Rank]_vars
  /\ []Running
  /\ [](spc = "done" => (Exhausted \/ HasError(items)))
  /\ [](Exhausted => spc # "read")

(***************************************************************************)
(* Properties of Error.                                                    *)
(***************************************************************************)
\* C20: equality of Error values compares only the variant: two Io errors
\* are equal whatever they wrap, two values of the same variant are equal,
\* values of different variants are not; the relation is reflexive,
\* symmetric and transitive.
C20_EqComparesVariant ==
  eq_res # << >> =>
    /\ eq_res[1] <=> (lhs.variant = rhs.variant)
    /\ (lhs.variant = "Io" /\ rhs.variant = "Io") => eq_res[1]
    /\ eq(lhs, lhs) /\ eq(rhs, rhs)
    /\ eq_res[1] <=> eq(rhs, lhs)
    /\ \A z \in Errors : (eq_res[1] /\ eq(rhs, z)) => eq(lhs, z)

C20_Witness ==
  /\ eq_res = << TRUE >>
  /\ lhs.variant = "Io"
  /\ rhs.variant = "Io"
  /\ lhs.io # rhs.io

(***************************************************************************)
(* Properties of the block converter.                                      *)
(***************************************************************************)
\* A number of at most 8 bytes as 9 bytes, big end first.
PadTo9(bytes) == Repeat(0, U64_BYTES + 1 - Len(bytes)) \o bytes

\* num after k rounds of num /= 58.
RECURSIVE QuotientAfter(_, _)
QuotientAfter(num, k) ==
  IF k = 0 THEN num ELSE QuotientAfter(DivMod(num, Len(BASE58_CHARS)).quot, k - 1)

\* 58^k as 9 bytes (k <= 11): the value of the digit 1 followed by k zeros.
Pow58(k) == BlockValue(<< BASE58_CHARS[2] >> \o Repeat(BASE58_CHARS[1], k))

\* The lengths the claims name as those of an encoded block.
ValidLengths == {0, 2, 3, 5, 6, 7, 9, 10, 11}

\* C25: for every raw block of n bytes, 1 <= n <= 8, the first
\* ENCODED_BLOCK_SIZES[n] characters encode_block returns are the base-58
\* digits, most significant first, of the block read as a big-endian
\* number, padded on the left with '1' to that width; the quotient left
\* after that many divisions is 0 (8 zero bytes give "11111111111", 8 bytes
\* 0xFF give "jpXCZedGfVQ").
C25_BlockDigits ==
  (op = "encode_block" /\ Len(data) \in 1..FULL_BLOCK_SIZE) =>
    /\ res.tag = "Ok"
    /\ Len(res.val) = FULL_ENCODED_BLOCK_SIZE
    /\ LET w      == ENCODED_BLOCK_SIZES[Len(data) + 1]
           digits == Slice(res.val, 0, w)
       IN  /\ \A i \in 1..w : IsSymbol(digits[i])
           /\ BlockValue(digits) = PadTo9(data)
           /\ QuotientAfter(u8be_to_u64(data), w) = U64(0)
    /\ data = Repeat(0, FULL_BLOCK_SIZE) => res.val = Repeat(49, FULL_ENCODED_BLOCK_SIZE)
    /\ data = Repeat(255, FULL_BLOCK_SIZE)
         => res.val = << 106, 112, 88, 67, 90, 101, 100, 71, 102, 86, 81 >>

C25_Witness ==
  /\ op = "encode_block"
  /\ data = << 0, 0, 255, 255, 255 >>
  /\ res.tag = "Ok"
  /\ BlockValue(Slice(res.val, 0, 7)) = PadTo9(data)

\* C26: the block size table is strictly increasing and, for every n in
\* 0..8, its entry is the smallest k with 58^k >= 256^n: the width has
\* enough digits for every value of n bytes and one digit fewer has not.
C26_TableIsMinimal ==
  (op = "encode_block" /\ Len(data) <= FULL_BLOCK_SIZE) =>
    LET n == Len(data)
        k == ENCODED_BLOCK_SIZES[n + 1]
    IN  /\ Len(ENCODED_BLOCK_SIZES) = FULL_BLOCK_SIZE + 1
        /\ n > 0 => ENCODED_BLOCK_SIZES[n] < k
        /\ ~Less(Pow58(k), TwoToThe8(n))
        /\ k > 0 => Less(Pow58(k - 1), TwoToThe8(n))

C26_Witness ==
  /\ op = "encode_block"
  /\ Len(data) = 6
  /\ res.tag = "Ok"
  /\ ENCODED_BLOCK_SIZES[Len(data)] + 2 = ENCODED_BLOCK_SIZES[Len(data) + 1]
  /\ Less(Pow58(8), TwoToThe8(6))

\* C27: encode_block fails with InvalidBlockSize exactly when the block
\* length is 0 or greater than 8; decode_block fails with InvalidBlockSize
\* exactly when the block length is not one of 0, 2, 3, 5, 6, 7, 9, 10, 11,
\* whatever the bytes of the block are; a block of length 0 decodes to zero
\* significant bytes.
C27_BlockSizePreconditions ==
  /\ op = "encode_block" =>
       /\ res.tag = "Err" <=> (Len(data) = 0 \/ Len(data) > FULL_BLOCK_SIZE)
       /\ res.tag = "Err" => res.err = "InvalidBlockSize"
  /\ op = "decode_block" =>
       /\ res.err = "InvalidBlockSize" <=> Len(text) \notin ValidLengths
       /\ Len(text) = 0 =>
            (res.tag = "Ok" /\ res.val.size = 0 /\ Significant(res.val) = << >>)

C27_Witness ==
  /\ op = "decode_block"
  /\ Len(text) = 8
  /\ HasLookalike(text)
  /\ res.err = "InvalidBlockSize"

\* C28: every successful decode_block result has the size the table maps
\* the input length to, its 8-byte buffer is the big-endian representation
\* of the decoded value, and the 8 - size high-order bytes of the buffer are
\* zero, so the size low-order bytes carry the whole value.
C28_DecodedBlockShape ==
  (op = "decode_block" /\ res.tag = "Ok") =>
    LET b == res.val
        v == BlockValue(text)
    IN  /\ b.size \in 0..FULL_BLOCK_SIZE
        /\ ENCODED_BLOCK_SIZES[b.size + 1] = Len(text)
        /\ Len(b.data) = FULL_BLOCK_SIZE
        /\ v = << 0 >> \o b.data
        /\ \A i \in 1..(FULL_BLOCK_SIZE - b.size) : b.data[i] = 0
        /\ PadTo9(Significant(b)) = v

C28_Witness ==
  /\ op = "decode_block"
  /\ res.tag = "Ok"
  /\ res.val.size = 2
  /\ res.val.data = << 0, 0, 0, 0, 0, 0, 0, 57 >>

(***************************************************************************)
(* Properties of decode and decode_check.                                  *)
(***************************************************************************)
AllSymbols(c) == \A i \in 1..Len(c) : IsSymbol(c[i])

\* The first chunk (from 1) of the text that decode_block refuses.
FirstFailingChunk ==
  CHOOSE k \in 1..Len(TextChunks) :
    /\ decode_block(TextChunks[k]).tag = "Err"
    /\ \A j \in 1..(k - 1) : decode_block(TextChunks[j]).tag = "Ok"

\* C22: decode_check(text) returns the error of decode(text) unchanged when
\* decode(text) fails; when decode(text) returns r of at least 4 bytes, it
\* returns Ok(r[..len-4]) iff the first 4 bytes of the digest of r[..len-4]
\* equal r[len-4..], and Err(InvalidChecksum) otherwise: the digest is taken
\* over the payload only.
C22_DecodeCheckContract ==
  op = "decode_check" =>
    LET d == decode(text)
    IN  /\ d.tag = "Err" => res = d
        /\ (d.tag = "Ok" /\ Len(d.val) >= CHECKSUM_SIZE) =>
             LET len      == Len(d.val)
                 payload  == Slice(d.val, 0, len - CHECKSUM_SIZE)
                 checksum == Slice(d.val, len - CHECKSUM_SIZE, len)
             IN  /\ res = Ok(payload) <=> Keccak4(seed, payload) = checksum
                 /\ res # Ok(payload) => res = Err("InvalidChecksum")

C22_Witness ==
  /\ op = "decode_check"
  /\ enc = "input"
  /\ decode(text).tag = "Ok"
  /\ Len(decode(text).val) > CHECKSUM_SIZE
  /\ res.err = "InvalidChecksum"

\* C29: the error decode returns is that of the leftmost failing chunk of 11
\* characters, whatever the later chunks are; within a chunk a length out of
\* the table is InvalidBlockSize whatever the symbols are, a symbol out of
\* the alphabet is InvalidSymbol whatever the value is, and Overflow is
\* returned only for a chunk of valid length made of alphabet symbols only.
C29_ErrorPrecedence ==
  op = "decode" =>
    /\ \A k \in 1..Len(TextChunks) :
         LET c == TextChunks[k]
             r == decode_block(c)
         IN  /\ Len(c) \notin ValidLengths => r.err = "InvalidBlockSize"
             /\ (Len(c) \in ValidLengths /\ ~AllSymbols(c)) => r.err = "InvalidSymbol"
             /\ r.err = "Overflow" => (Len(c) \in ValidLengths /\ AllSymbols(c))
    /\ IF \E k \in 1..Len(TextChunks) : decode_block(TextChunks[k]).tag = "Err"
       THEN /\ res.tag = "Err"
            /\ res.err = decode_block(TextChunks[FirstFailingChunk]).err
       ELSE res.tag = "Ok"

C29_Witness ==
  /\ op = "decode"
  /\ Len(TextChunks) = 2
  /\ decode_block(TextChunks[1]).err = "InvalidSymbol"
  /\ decode_block(TextChunks[2]).err = "InvalidBlockSize"
  /\ res.err = "InvalidSymbol"

(***************************************************************************)
(* Properties of the trailing window of decode_stream_check.               *)
(***************************************************************************)
\* The bytes decode_stream_check has received from decode_stream so far.
Received == Slice(GoodBytes(text), 0, dsc_clen)

BadChecksum(its) == \E i \in 1..Len(its) : its[i] = Err("InvalidChecksum")

\* After k bytes received: the first max(0, k - 4) of them yielded, in
\* order, and fed to the digest; the last min(k, 4) of them in the ring.
WindowHolds ==
  sop = "decode_stream_check" =>
    LET k == dsc_clen
        n == IF k > CHECKSUM_SIZE THEN k - CHECKSUM_SIZE ELSE 0
    IN  /\ k <= Len(GoodBytes(text))
        /\ OkBytes(items) = Slice(Received, 0, n)
        /\ \A i \in 1..n : items[i] = Ok(Received[i])
        /\ hashed = OkBytes(items)
        /\ Len(dsc_buf) = DSC_LEN
        /\ \A j \in 1..Min(k, CHECKSUM_SIZE) :
             dsc_buf[((k - j) % DSC_LEN) + 1] = Received[k - j + 1]
        /\ BadChecksum(items) =>
             /\ spc = "done" /\ after = "break" /\ src = << >>
             /\ items[Len(items)] = Err("InvalidChecksum")
             /\ ~BadChecksum(Slice(items, 0, Len(items) - 1))

\* The comparison is the step that leaves "ended": it is taken once the inner
\* stream has ended, it is the only step that adds InvalidChecksum, the only
\* step by which a stream whose inner stream has ended without an error
\* finishes, and no step follows it.
ComparedOnce ==
  sop = "decode_stream_check" =>
    /\ spc \notin {"done", "panic"}
    /\ spc' = "ended" => (spc = "yield" \/ spc = "read") /\ after' = "break" /\ src' = << >>
    /\ spc = "ended" => spc' \in {"done", "panic"} /\ after = "break"
    /\ (BadChecksum(items') /\ ~BadChecksum(items)) => spc = "ended"
    /\ (spc' = "done" /\ ~HasError(items')) => spc = "ended"

\* C23: decode_stream_check keeps a trailing window of the last 4 decoded
\* bytes: after k bytes received from the inner decode stream it has yielded
\* exactly the first max(0, k - 4) of them in order, the digest has been fed
\* exactly those bytes, the ring of 5 slots holds the last min(k, 4) received
\* bytes, and the checksum comparison is made once, only after the inner
\* stream has ended.
C23_TrailingWindow == []WindowHolds /\ [][ComparedOnce]_vars

C23_Witness ==
  /\ sop = "decode_stream_check"
  /\ spc = "done"
  /\ dsc_clen > DSC_LEN
  /\ Len(hashed) = dsc_clen - CHECKSUM_SIZE
  /\ items[Len(items)] = Err("InvalidChecksum")

\* C24 (as claimed): decode_stream_check on an input that decodes to fewer
\* than 4 bytes, an immediately exhausted source included, yields no byte and
\* ends with an error item; the index clen - CHECKSUM_SIZE + i that selects
\* the trailing checksum bytes never goes below zero.
C24_ShortEndsWithError ==
  ( /\ sop = "decode_stream_check"
    /\ decode(text).tag = "Ok"
    /\ Len(decode(text).val) < CHECKSUM_SIZE ) =>
    /\ OkBytes(items) = << >>
    /\ spc # "panic"
    /\ spc = "done" => (items # << >> /\ items[Len(items)].tag = "Err")
    /\ spc = "ended" => dsc_clen >= CHECKSUM_SIZE

(***************************************************************************)
(* Properties of the buffers of the streaming loops.                       *)
(***************************************************************************)
Encoding == sop \in {"encode_stream", "encode_stream_check"}

Decoding == sop \in {"decode_stream", "decode_stream_check"}

\* clen and the size of buf of the loop that runs.
LoopClen(e, d) == IF Encoding THEN e ELSE d

LoopSize == IF Encoding THEN FULL_BLOCK_SIZE ELSE FULL_ENCODED_BLOCK_SIZE

\* At every read buf[clen..] has room, and clen never exceeds the buffer; a
\* full buffer is being flushed, or its block was refused.
FillBounded ==
  (Encoding \/ Decoding) =>
    LET clen == LoopClen(es_clen, ds_clen)
    IN  /\ clen \in 0..LoopSize
        /\ Len(es_buf) = FULL_BLOCK_SIZE
        /\ Len(ds_buf) = FULL_ENCODED_BLOCK_SIZE
        /\ spc = "read" => clen <= LoopSize - 1
        /\ (spc = "read" /\ Encoding) => (0 \in EsReadLens <=> src = << >>)
        /\ (clen = LoopSize /\ after = "continue") =>
             \/ spc = "yield" /\ pend # << >>
             \/ spc = "done" /\ HasError(items)

\* A read that does not fill the buffer adds what it read to clen; the step
\* that ends the flush of a full buffer resets clen to 0.
FillSteps ==
  (Encoding \/ Decoding) =>
    LET clen  == LoopClen(es_clen, ds_clen)
        clenN == LoopClen(es_clen', ds_clen')
    IN  /\ (spc = "read" /\ spc' = "read") =>
             /\ clenN = clen + (Len(src) - Len(src'))
             /\ Len(src) > Len(src')
        /\ (spc = "yield" /\ spc' = "read") => (clen = LoopSize /\ clenN = 0)
        /\ (spc = "read" /\ clenN = LoopSize) => spc' \in {"yield", "done"}

\* C30: at every read the fill count clen is in 0..7 in encode_stream and
\* encode_stream_check and in 0..10 in decode_stream, so the slice handed to
\* the source is never empty and a read of 0 bytes means the end of the
\* input; clen never exceeds the size of the buffer; every block is flushed
\* and clen reset to 0 as soon as the buffer is full.
C30_BufferFill == []FillBounded /\ [][FillSteps]_vars

C30_Witness ==
  /\ sop = "encode_stream"
  /\ spc = "read"
  /\ es_clen = 0
  /\ Len(items) = FULL_ENCODED_BLOCK_SIZE
  /\ src # << >>

(***************************************************************************)
(* Properties of calls that run at the same time.                          *)
(***************************************************************************)
\* What the call returns when it runs alone.
Alone(c) ==
  CASE c.op = "encode"       -> encode(c.arg)
    [] c.op = "encode_check" -> encode_check(seed, c.arg)
    [] c.op = "decode"       -> decode(c.arg)
    [] c.op = "decode_check" -> decode_check(seed, c.arg)

\* Every call that has returned has returned what it returns alone, and no
\* call has changed its argument.
SameAsAlone ==
  \A t \in Threads :
    /\ calls[t].pc = "done" => calls[t].ret = Alone(calls[t])
    /\ calls[t].pc \notin {"begin", "done"} =>
         calls[t].bytes = (IF calls[t].op = "encode_check"
                           THEN calls[t].arg \o Keccak4(seed, calls[t].arg)
                           ELSE calls[t].arg)

\* A step is the step of one call, and it leaves the other call as it was.
OwnStateOnly ==
  \E t \in Threads :
    /\ calls'[t] # calls[t]
    /\ calls'[t].op = calls[t].op
    /\ calls'[t].arg = calls[t].arg
    /\ \A u \in Threads \ {t} : calls'[u] = calls[u]
    /\ \A u \in Threads \ {t} : frames'[Frame(u)].tag = frames[Frame(u)].tag

\* C21: calls of encode, decode, encode_check and decode_check interleaved in
\* any order each return what they return when run alone: no call writes
\* state another call reads.
C21_CallsIndependent == []SameAsAlone /\ [][OwnStateOnly]_vars

C21_Witness ==
  /\ calls["a"].op = "encode_check"
  /\ calls["a"].pc = "done"
  /\ Len(calls["a"].blocks) = 2
  /\ calls["b"].op = "decode_check"
  /\ calls["b"].pc = "push"
  /\ Len(calls["b"].blocks) = 1
  /\ frames["a"].tag = "Ok"
  /\ frames["b"].tag = "Ok"

====
